---- MODULE Spec2Model ----
(***************************************************************************)
(* A model of the YOUQINGGPS telemetry parser of dashcam-telemetry:        *)
(* the chunk scanner and track assembler (YouqingParser.parse), the record *)
(* decoder (YouqingParser._parse_chunk) and the NMEA angle codec.          *)
(*                                                                         *)
(* Bytes are the integers 0..255 and a buffer is a sequence of bytes; a    *)
(* Python offset p is the TLA+ index p+1.  A Python Optional is a sequence *)
(* of length at most one: None is << >> and a present value x is <<x>>.    *)
(*                                                                         *)
(* Numbers.  A 32-bit unsigned field is kept as its two 16-bit halves      *)
(* [hi, lo] (its value is hi*65536 + lo), because it can exceed the        *)
(* integers TLC computes with.  A 32-bit float is decoded from its IEEE    *)
(* 754 bit pattern into sign, class and magnitude; the magnitude is held   *)
(* in units of 2^-FracBits.  NMEA values and speeds are those magnitudes;  *)
(* decimal degrees are exact rationals held in units of                    *)
(* 1/(60 * 2^FracBits) degree.  The floats the inputs are drawn from are   *)
(* exact multiples of that unit, so no rounding is modelled.               *)
(***************************************************************************)
EXTENDS Integers, Sequences, FiniteSets, TLC

(***************************************************************************)
(* Bounds of the model                                                     *)
(***************************************************************************)
\* binary digits kept after the point of a decoded float
FracBits == 4
\* largest number of segments a generated file is built from
MaxSegs == 3

(***************************************************************************)
(* Program constants                                                       *)
(***************************************************************************)
\* b"freeGPS "
MARKER_FREE_GPS == <<102, 114, 101, 101, 71, 80, 83, 32>>
\* b"YOUQINGGPS"
MARKER_YOUQING == <<89, 79, 85, 81, 73, 78, 71, 71, 80, 83>>
\* content[pos : pos + 256]
ChunkSize == 256
\* offset = pos + 8
Advance == 8
\* if len(chunk) < 72
MinChunkLen == 72
\* if len(chunk) >= 112
SpeedMinLen == 112
\* 0 <= raw_speed < 500
SpeedLimit == 500
\* 2000 + year if year < 100
YearPivot == 100
\* 2000 + year
YearEpoch == 2000
\* hour % 24
HoursPerDay == 24

None == << >>
Some(x) == <<x>>

Min(a, b) == IF a < b THEN a ELSE b

(***************************************************************************)
(* Python bytes                                                            *)
(***************************************************************************)
\* s[a:b] for 0 <= a <= b: clipped to the end of s, never an error
Slice(s, a, b) == SubSeq(s, Min(a, Len(s)) + 1, Min(b, Len(s)))

\* fault: the last byte of sub is not compared
Occurs_IgnoreLast(s, sub, p) ==
    /\ p + Len(sub) <= Len(s)
    /\ \A i \in 1..(Len(sub) - 1) : s[p + i] = sub[i]

\* bytes.find(sub, start): the least offset >= start where sub occurs, or -1
Occurs(s, sub, p) ==
    /\ p + Len(sub) <= Len(s)
    /\ \A i \in 1..Len(sub) : s[p + i] = sub[i]

Find(s, sub, start) ==
    LET last == Len(s) - Len(sub)
    IN  IF \E p \in start..last : Occurs(s, sub, p)
        THEN CHOOSE p \in start..last :
                /\ Occurs(s, sub, p)
                /\ \A q \in start..(p - 1) : ~Occurs(s, sub, q)
        ELSE -1

\* bytes.decode("ascii", errors="replace"): code points, U+FFFD for a non-ASCII byte
ReplacementChar == 65533
DecodeAsciiReplace(bs) ==
    [i \in 1..Len(bs) |-> IF bs[i] < 128 THEN bs[i] ELSE ReplacementChar]

(***************************************************************************)
(* struct.unpack                                                           *)
(***************************************************************************)
\* struct.unpack("<I", b): little-endian, as the halves [hi, lo]
UnpackU32(b) == [hi |-> b[4] * 256 + b[3], lo |-> b[2] * 256 + b[1]]

U32(n) == [hi |-> n \div 65536, lo |-> n % 65536]

\* struct.unpack("<f", b): little-endian IEEE 754 binary32
\* cls is "zero", "nan", "inf" or "num"; mag is |value| * 2^FracBits, rounded
\* toward zero and saturated at 2^30
UnpackF32(b) ==
    LET sign == b[4] \div 128
        exp  == (b[4] % 128) * 2 + (b[3] \div 128)
        man  == (b[3] % 128) * 65536 + b[2] * 256 + b[1]
        sig  == IF exp = 0 THEN man ELSE 8388608 + man
        sh   == (IF exp = 0 THEN 1 ELSE exp) - 150 + FracBits
        mag  == IF sh >= 7 THEN 2^30
                ELSE IF sh >= 0 THEN sig * 2^sh
                ELSE IF sh <= -25 THEN 0
                ELSE sig \div 2^(-sh)
    IN  [neg |-> sign = 1,
         cls |-> IF exp = 255 THEN (IF man = 0 THEN "inf" ELSE "nan")
                 ELSE IF exp = 0 /\ man = 0 THEN "zero" ELSE "num",
         mag |-> IF exp = 255 THEN 2^30 ELSE mag]

\* x == 0 for a Python float: true of +0.0 and -0.0, false of nan
FloatIsZero(x) == x.cls = "zero"

\* fault: 0 <= x <= 500
FloatInSpeedRange_Inclusive(x) ==
    /\ x.cls \in {"zero", "num"}
    /\ (x.cls = "zero" \/ ~x.neg)
    /\ x.mag <= SpeedLimit * 2^FracBits

\* 0 <= x < 500 for a Python float: false of nan, of inf, of a negative number
FloatInSpeedRange(x) ==
    /\ x.cls \in {"zero", "num"}
    /\ (x.cls = "zero" \/ ~x.neg)
    /\ x.mag < SpeedLimit * 2^FracBits

(***************************************************************************)
(* utils/nmea.py                                                           *)
(***************************************************************************)
\* nmea_to_decimal: degrees = int(v / 100); minutes = v - degrees * 100;
\* degrees + minutes / 60.  int() raises ValueError on nan and OverflowError
\* on an infinity; it truncates toward zero, so the sign carries through.
\* The result is in units of 1/(60 * 2^FracBits) degree.
nmea_to_decimal(x) ==
    IF x.cls = "nan" THEN [exc |-> "ValueError", val |-> 0]
    ELSE IF x.cls = "inf" THEN [exc |-> "OverflowError", val |-> 0]
    ELSE LET unit    == 2^FracBits
             degrees == x.mag \div (100 * unit)
             minutes == x.mag - degrees * 100 * unit
             total   == degrees * 60 * unit + minutes
         IN  [exc |-> "", val |-> IF x.neg THEN -total ELSE total]

(***************************************************************************)
(* datetime                                                                *)
(***************************************************************************)
U32Fits(u, lo, hi) == u.hi = 0 /\ lo <= u.lo /\ u.lo <= hi

\* u % m for a 32-bit unsigned u, computed on its halves
U32Mod(u, m) == ((u.hi % m) * (65536 % m) + u.lo) % m

\* whether u exceeds a C int (2^31 - 1)
ExceedsCInt(u) == u.hi >= 32768

IsLeap(y) == y % 4 = 0 /\ (y % 100 # 0 \/ y % 400 = 0)

DaysInMonth(y, m) ==
    IF m = 2 THEN (IF IsLeap(y) THEN 29 ELSE 28)
    ELSE IF m \in {4, 6, 9, 11} THEN 30 ELSE 31

\* the datetime implementations a Python build can carry: CPython's C
\* module converts each argument to a C int first and raises OverflowError
\* for one that does not fit; the pure-Python module (the documented
\* behaviour) raises ValueError for every out-of-range argument
DatetimeImpls == {"C", "Python"}

\* datetime(year, month, day, hour, minute, second) on 32-bit unsigned arguments
datetime(impl, year, month, day, hour, minute, second) ==
    IF /\ impl = "C"
       /\ \E u \in {year, month, day, hour, minute, second} : ExceedsCInt(u)
    THEN [exc |-> "OverflowError", val |-> None]
    ELSE IF /\ U32Fits(year, 1, 9999)
            /\ U32Fits(month, 1, 12)
            /\ U32Fits(day, 1, 31)
            /\ day.lo <= DaysInMonth(year.lo, month.lo)
            /\ U32Fits(hour, 0, 23)
            /\ U32Fits(minute, 0, 59)
            /\ U32Fits(second, 0, 59)
    THEN [exc |-> "",
          val |-> Some([year |-> year.lo, month |-> month.lo, day |-> day.lo,
                        hour |-> hour.lo, minute |-> minute.lo,
                        second |-> second.lo])]
    ELSE [exc |-> "ValueError", val |-> None]

(***************************************************************************)
(* YouqingParser._parse_chunk                                              *)
(***************************************************************************)
\* the outcomes of a call: a GPSPoint, None, or an exception leaving the call
Point(p) == [kind |-> "point", point |-> Some(p), exc |-> ""]
Rejected == [kind |-> "none", point |-> None, exc |-> ""]
Raised(e) == [kind |-> "raise", point |-> None, exc |-> e]

\* fault: the length check stops at the last date field
TooShort_DateFieldsOnly(chunk) == Len(chunk) < 68

\* if len(chunk) < 72: return None
TooShort(chunk) == Len(chunk) < MinChunkLen

\* fault: "and" for "or"
IsSentinel_Both(lat_nmea, lon_nmea) ==
    FloatIsZero(lat_nmea) /\ FloatIsZero(lon_nmea)

\* if lat_nmea == 0 or lon_nmea == 0: return None
IsSentinel(lat_nmea, lon_nmea) == FloatIsZero(lat_nmea) \/ FloatIsZero(lon_nmea)

\* fault: year <= 100
YearFull_Inclusive(year) ==
    IF U32Fits(year, 0, YearPivot)
    THEN [hi |-> 0, lo |-> YearEpoch + year.lo]
    ELSE year

\* year_full = 2000 + year if year < 100 else year
YearFull(year) ==
    IF U32Fits(year, 0, YearPivot - 1)
    THEN [hi |-> 0, lo |-> YearEpoch + year.lo]
    ELSE year

\* fault: the hour is passed on as it was read
HourClamped_Raw(hour) == hour

\* hour_clamped = hour % 24
HourClamped(hour) == [hi |-> 0, lo |-> U32Mod(hour, HoursPerDay)]

\* try: timestamp = datetime(...) except ValueError: timestamp = None
BuildTimestamp(impl, year, month, day, hour, minute, second) ==
    LET r == datetime(impl, YearFull(year), month, day, HourClamped(hour),
                      minute, second)
    IN  IF r.exc = "ValueError" THEN [exc |-> "", val |-> None] ELSE r

\* ns = status[1] if len(status) > 1 else "N";  if ns == "S": lat = -lat
ApplyNS(status, lat) ==
    LET ns == IF Len(status) > 1 THEN status[2] ELSE 78
    IN  IF ns = 83 THEN -lat ELSE lat

\* fault: every byte but 'E' negates
ApplyEW_NotEast(status, lon) ==
    LET ew == IF Len(status) > 2 THEN status[3] ELSE 69
    IN  IF ew # 69 THEN -lon ELSE lon

\* ew = status[2] if len(status) > 2 else "E";  if ew == "W": lon = -lon
ApplyEW(status, lon) ==
    LET ew == IF Len(status) > 2 THEN status[3] ELSE 69
    IN  IF ew = 87 THEN -lon ELSE lon

\* speed = 0.0; if len(chunk) >= 112: raw_speed = ...; if 0 <= raw_speed < 500
ParseSpeed(chunk) ==
    IF Len(chunk) >= SpeedMinLen
    THEN LET raw_speed == UnpackF32(Slice(chunk, 108, 112))
         IN  IF FloatInSpeedRange(raw_speed) THEN raw_speed.mag ELSE 0
    ELSE 0

\* fault: every byte but 'V' is a fix
FixQuality_NotVoid(status) ==
    IF Len(status) >= 1 /\ status[1] = 86 THEN 0 ELSE 1

\* fix_quality = 1 if status.startswith("A") else 0
FixQuality(status) == IF Len(status) >= 1 /\ status[1] = 65 THEN 1 ELSE 0

\* fault: the satellite count is taken from the fix quality
GPSPoint_SatellitesFromFix(lat, lon, timestamp, speed, heading, fix_quality) ==
    [latitude |-> lat, longitude |-> lon, timestamp |-> timestamp,
     speed |-> speed, heading |-> heading, altitude |-> None,
     fix_quality |-> fix_quality, satellites |-> fix_quality,
     gsensor_x |-> None, gsensor_y |-> None, gsensor_z |-> None]

\* GPSPoint(latitude, longitude, timestamp, speed, heading=0.0, fix_quality)
\* with the dataclass defaults of models.py for the fields not passed
GPSPoint(lat, lon, timestamp, speed, heading, fix_quality) ==
    [latitude |-> lat, longitude |-> lon, timestamp |-> timestamp,
     speed |-> speed, heading |-> heading, altitude |-> None,
     fix_quality |-> fix_quality, satellites |-> 0,
     gsensor_x |-> None, gsensor_y |-> None, gsensor_z |-> None]

\* struct.unpack raises struct.error on a slice that is not 4 bytes long
FieldsComplete(chunk) == Len(chunk) >= 68

parse_chunk(impl, chunk) ==
    IF TooShort(chunk) THEN Rejected
    ELSE IF ~FieldsComplete(chunk) THEN Raised("struct.error")
    ELSE
    LET lat_nmea == UnpackF32(Slice(chunk, 36, 40))
        lon_nmea == UnpackF32(Slice(chunk, 40, 44))
    IN  IF IsSentinel(lat_nmea, lon_nmea) THEN Rejected
        ELSE
        LET year   == UnpackU32(Slice(chunk, 44, 48))
            hour   == UnpackU32(Slice(chunk, 48, 52))
            minute == UnpackU32(Slice(chunk, 52, 56))
            day    == UnpackU32(Slice(chunk, 56, 60))
            month  == UnpackU32(Slice(chunk, 60, 64))
            second == UnpackU32(Slice(chunk, 64, 68))
            status == DecodeAsciiReplace(Slice(chunk, 68, 71))
            lat    == nmea_to_decimal(lat_nmea)
            lon    == nmea_to_decimal(lon_nmea)
            ts     == BuildTimestamp(impl, year, month, day, hour, minute, second)
        IN  IF lat.exc # "" THEN Raised(lat.exc)
            ELSE IF lon.exc # "" THEN Raised(lon.exc)
            ELSE IF ts.exc # "" THEN Raised(ts.exc)
            ELSE Point(GPSPoint(ApplyNS(status, lat.val),
                                ApplyEW(status, lon.val),
                                ts.val, ParseSpeed(chunk), 0,
                                FixQuality(status)))

(***************************************************************************)
(* Inputs: records laid out as the class docstring of YouqingParser gives  *)
(***************************************************************************)
\* struct.pack("<I", u)
PackU32(u) == <<u.lo % 256, u.lo \div 256, u.hi % 256, u.hi \div 256>>

Zeros(n) == [i \in 1..n |-> 0]

\* float32 bit patterns, little-endian
F_3840_75  == <<0, 12, 112, 69>>
F_m3840_75 == <<0, 12, 112, 197>>
F_7716_25  == <<0, 34, 241, 69>>
F_9999     == <<0, 60, 28, 70>>
F_18000    == <<0, 160, 140, 70>>
F_45_5     == <<0, 0, 54, 66>>
F_499_5    == <<0, 192, 249, 67>>
F_500      == <<0, 0, 250, 67>>
F_600      == <<0, 0, 22, 68>>
F_m1       == <<0, 0, 128, 191>>
F_zero     == <<0, 0, 0, 0>>
F_mzero    == <<0, 0, 0, 128>>
F_nan      == <<0, 0, 192, 127>>
F_inf      == <<0, 0, 128, 127>>

\* the largest 32-bit unsigned value, and the least one above a C int
U32Max == [hi |-> 65535, lo |-> 65535]
U32Big == [hi |-> 32768, lo |-> 0]

\* a 256-byte record: [0:8] marker, [8:12] payload size, [12:22] brand,
\* [36:44] latitude and longitude, [44:68] year, hour, minute, day, month,
\* second, [68:71] status, [108:112] speed
Record(f) ==
    MARKER_FREE_GPS \o <<240, 0, 0, 0>> \o f.brand \o Zeros(14)
    \o f.lat \o f.lon
    \o PackU32(f.year) \o PackU32(f.hour) \o PackU32(f.minute)
    \o PackU32(f.day) \o PackU32(f.month) \o PackU32(f.second)
    \o f.status \o Zeros(37) \o f.speed \o Zeros(ChunkSize - 112)

\* 2024-04-20 14:24:12, 38 deg 40.75 min S, 77 deg 16.25 min E, 45.5 km/h
BaseFields ==
    [brand |-> MARKER_YOUQING, lat |-> F_3840_75, lon |-> F_7716_25,
     year |-> U32(24), hour |-> U32(14), minute |-> U32(24),
     day |-> U32(20), month |-> U32(4), second |-> U32(12),
     status |-> <<65, 83, 69>>, speed |-> F_45_5]

YearValues   == {U32(0), U32(23), U32(24), U32(99), U32(100), U32(2024),
                 U32(10000), U32Big, U32Max}
MonthValues  == {U32(0), U32(2), U32(4), U32(12), U32(13), U32Big}
DayValues    == {U32(0), U32(20), U32(29), U32(31), U32(32)}
HourValues   == {U32(0), U32(23), U32(25), U32Max}
MinuteValues == {U32(24), U32(60)}
SecondValues == {U32(12), U32(60)}
LatValues    == {F_3840_75, F_m3840_75, F_9999, F_zero, F_mzero, F_nan, F_inf}
LonValues    == {F_7716_25, F_18000, F_zero, F_nan}
StatusValues == {<<65, 83, 69>>, <<65, 78, 87>>, <<86, 78, 69>>,
                 <<200, 83, 87>>, <<65, 255, 255>>}
SpeedValues  == {F_45_5, F_499_5, F_500, F_600, F_m1, F_zero, F_nan}
\* candidate lengths: a 256-byte window cut short by the end of the file
LenValues    == {0, 22, 44, 68, 70, 71, 72, 73, 111, 112, ChunkSize}

\* every date/time combination, on the base record
DateSweep ==
    {[BaseFields EXCEPT !.year = y, !.month = mo, !.day = d, !.hour = h,
                        !.minute = mi, !.second = s] :
        y \in YearValues, mo \in MonthValues, d \in DayValues,
        h \in HourValues, mi \in MinuteValues, s \in SecondValues}

\* every coordinate pair, with a valid and an invalid date
CoordSweep ==
    {[BaseFields EXCEPT !.lat = la, !.lon = lo, !.month = mo] :
        la \in LatValues, lo \in LonValues, mo \in {U32(4), U32(13), U32Big}}

\* every status and speed, on both hemispheres
StatusSweep ==
    {[BaseFields EXCEPT !.status = st, !.speed = sp, !.lat = la] :
        st \in StatusValues, sp \in SpeedValues,
        la \in {F_3840_75, F_m3840_75}}

\* the candidates handed to the decoder directly
DecodeInputs ==
    {Record(f) : f \in DateSweep \cup StatusSweep}
    \cup {Slice(Record(f), 0, n) : f \in CoordSweep \cup StatusSweep,
                                   n \in LenValues}

(***************************************************************************)
(* Inputs: files built from segments                                       *)
(***************************************************************************)
\* a complete record with a speed field, 112 bytes
SegGood == Slice(Record(BaseFields), 0, SpeedMinLen)
\* a second, shorter record: 72 bytes, northern and western hemisphere,
\* an invalid month
SegShort ==
    Slice(Record([BaseFields EXCEPT !.lat = F_7716_25, !.lon = F_3840_75,
                                    !.status = <<86, 78, 87>>,
                                    !.month = U32(13)]), 0, MinChunkLen)
\* a record with the zero latitude sentinel
SegZero == Slice(Record([BaseFields EXCEPT !.lat = F_zero]), 0, MinChunkLen)
\* a record whose longitude is not a number
SegNaN == Slice(Record([BaseFields EXCEPT !.lon = F_nan]), 0, MinChunkLen)
\* a record whose month does not fit a C int
SegOverflow ==
    Slice(Record([BaseFields EXCEPT !.month = U32Big]), 0, MinChunkLen)
\* a record cut after its latitude
SegTrunc == Slice(Record(BaseFields), 0, 40)
\* the marker with another brand at +12: a false positive
SegForeign ==
    Slice(Record([BaseFields EXCEPT
                    !.brand = <<89, 79, 85, 81, 73, 78, 71, 71, 80, 88>>]),
          0, 22)
\* the bare marker
SegMarker == MARKER_FREE_GPS
\* a complete record but for the last byte of its marker: "freeGPS_"
SegNoSpace == [SegGood EXCEPT ![8] = 95]
\* the first half of the marker
SegFree == <<102, 114, 101, 101>>

Segments ==
    {SegGood, SegShort, SegZero, SegNaN, SegOverflow, SegTrunc, SegForeign,
     SegMarker, SegFree}

RECURSIVE Concat(_)
Concat(segs) ==
    IF segs = << >> THEN << >> ELSE Head(segs) \o Concat(Tail(segs))

\* the contents a file can have
Files == {Concat(segs) : segs \in UNION {[1..n -> Segments] : n \in 0..MaxSegs}}

\* the path parse is called with
Paths == {"a.mp4"}

\* what a file that cannot be opened or read holds: nothing, or a record
UnreadableFiles == {<< >>, SegGood}

(***************************************************************************)
(* State                                                                   *)
(***************************************************************************)
VARIABLES
    impl,       \* the datetime implementation of the running Python
    filepath,   \* parse: the argument
    file,       \* the bytes of the file at filepath
    pc,         \* parse: "start", "find", "match", "done", "failed" when
                \* the read raised, or "raised" when another exception
                \* leaves parse; "idle" outside parse
    content,    \* parse: content
    offset,     \* parse: offset
    pos,        \* parse: pos
    points,     \* parse: points
    track,      \* parse: the returned GPSTrack, None until it returns
    calls,      \* history: one entry per marker match, in scan order
    chunk,      \* _parse_chunk: the argument of a direct call
    dpc,        \* _parse_chunk: "call", "returned"; "idle" outside a call
    ret,        \* _parse_chunk: the outcome of the direct call
    io,         \* what opening and reading the file does: "" when it
                \* succeeds, else the OSError subclass it raises
    pad,        \* the number of zero bytes the file holds ahead of the
                \* bytes of file (a file larger than the detector reads)
    error,      \* the exception that left parse, can_parse or
                \* extract_telemetry; "" when none did
    cpc,        \* can_parse: "call", "returned", "raised"; "idle" outside
    can,        \* can_parse: the returned value
    epc,        \* extract_telemetry: "get_parser", "found", "parse",
                \* "returned", "raised"; "idle" outside a call
    parser,     \* extract_telemetry: the parser get_parser returned
    asked,      \* get_parser: the parsers asked so far and their answers
    deg,        \* decimal_to_nmea: the argument, decimal degrees
    enc,        \* decimal_to_nmea: the returned NMEA value, None before
    dec,        \* nmea_to_decimal: what it returns for enc, None before
    pt,         \* GPSPoint.is_valid: the point (self)
    trk,        \* GPSTrack.filter_valid, GPSTrack.duration: the track (self)
    res,        \* the method called on pt or trk, and what it returned
    inputs,     \* cmd_extract: args.input, the files as they are on disk
    opts,       \* cmd_extract: args.skip_invalid and the output options
    idx,        \* cmd_extract: the position of input_file in args.input
    bpc,        \* cmd_extract: "next", "extract", "export", "done", or
                \* "crashed" when an exception leaves it; "idle" outside
    log,        \* cmd_extract: what was printed or exported, per input
    saved,      \* the local variables of the parse call that is suspended
    turn        \* which of the two interleaved parse calls is running

vars == <<impl, filepath, file, pc, content, offset, pos, points, track,
          calls, chunk, dpc, ret, io, pad, error, cpc, can, epc, parser, asked,
          deg, enc, dec, pt, trk, res, inputs, opts, idx, bpc, log,
          saved, turn>>

parseVars == <<filepath, file, pc, content, offset, pos, points, track, calls>>
decodeVars == <<chunk, dpc, ret>>
detectVars == <<pad, cpc, can>>
extractVars == <<epc, parser, asked>>
codecVars == <<deg, enc, dec>>
modelVars == <<pt, trk, res>>
batchVars == <<inputs, opts, idx, bpc, log>>
twinVars == <<saved, turn>>
restVars == <<codecVars, modelVars, batchVars, twinVars>>

(***************************************************************************)
(* YouqingParser.parse                                                     *)
(***************************************************************************)
\* GPSTrack(points=points, source_file=str(filepath), device_info={...})
GPSTrack(pts, source, info) ==
    [points |-> pts, source_file |-> source, device_info |-> info]

DeviceInfo == [format |-> "YOUQINGGPS"]

\* chunk = content[pos : pos + 256]
ChunkAt(buf, p) == Slice(buf, p, p + ChunkSize)

\* fault: the last byte of the brand identifier is not compared
BrandMismatch_NineBytes(c) ==
    Slice(c, 12, 21) # SubSeq(MARKER_YOUQING, 1, 9)

\* chunk[12:22] != MARKER_YOUQING
BrandMismatch(c) == Slice(c, 12, 22) # MARKER_YOUQING

\* fault: the cursor stays on the match
AdvanceFrom_NoStep(p) == p

\* fault: the cursor jumps over the whole window
AdvanceFrom_Window(p) == p + ChunkSize

\* offset = pos + 8
AdvanceFrom(p) == p + Advance

\* with open(filepath, "rb") as f: content = f.read(); points = []; offset = 0
ReadFile ==
    /\ pc = "start"
    /\ io = ""
    /\ content' = file
    /\ points' = << >>
    /\ offset' = 0
    /\ pc' = "find"
    /\ UNCHANGED restVars
    /\ UNCHANGED <<impl, filepath, file, pos, track, calls, decodeVars,
                   io, error, detectVars, extractVars>>

\* the subclasses of OSError that open() and read() raise: the file is
\* missing, is not permitted, is a directory, or a read fails
OSErrorSubclasses ==
    {"FileNotFoundError", "PermissionError", "IsADirectoryError", "OSError"}

\* fault: the error of the operating system leaves parse as it is
ReadFailure_Unwrapped(e) == e

\* except (OSError, IOError) as e: raise ParseError(...) from e
ReadFailure(e) == IF e \in OSErrorSubclasses THEN "ParseError" ELSE e

\* open() or read() raises: parse raises and nothing else of it runs
ReadFail ==
    /\ pc = "start"
    /\ io # ""
    /\ error' = ReadFailure(io)
    /\ pc' = "failed"
    /\ UNCHANGED restVars
    /\ UNCHANGED <<impl, filepath, file, content, offset, pos, points, track,
                   calls, decodeVars, io, detectVars, extractVars>>

\* pos = content.find(MARKER_FREE_GPS, offset)
FindMarker ==
    /\ pc = "find"
    /\ pos' = Find(content, MARKER_FREE_GPS, offset)
    /\ pc' = "match"
    /\ UNCHANGED restVars
    /\ UNCHANGED <<impl, filepath, file, content, offset, points, track,
                   calls, decodeVars, io, error, detectVars, extractVars>>

\* the marker without the brand: offset = pos + 8; continue
ScanFalsePositive ==
    /\ pc = "match"
    /\ pos >= 0
    /\ BrandMismatch(ChunkAt(content, pos))
    /\ offset' = AdvanceFrom(pos)
    /\ calls' = Append(calls, [pos |-> pos, kind |-> "skip",
                               len |-> Len(ChunkAt(content, pos))])
    /\ pc' = "find"
    /\ UNCHANGED restVars
    /\ UNCHANGED <<impl, filepath, file, content, pos, points, track,
                   decodeVars, io, error, detectVars, extractVars>>

\* fault: except ValueError
CaughtByParse_ValueErrorOnly(exc) == exc = "ValueError"

\* except Exception: the handler of parse catches every exception the
\* decoder can raise (each is a subclass of Exception)
ExceptionSubclasses == {"ValueError", "OverflowError", "struct.error"}
CaughtByParse(exc) == exc \in ExceptionSubclasses

\* fault: a sample already in the list is not appended again
AppendPoint_Dedup(pts, r) ==
    IF r.kind = "point" /\ \A i \in 1..Len(pts) : pts[i] # r.point[1]
    THEN Append(pts, r.point[1]) ELSE pts

\* if point is not None: points.append(point)
AppendPoint(pts, r) ==
    IF r.kind = "point" THEN Append(pts, r.point[1]) ELSE pts

\* the candidate goes to _parse_chunk; except Exception: pass; offset = pos + 8
ScanCandidate ==
    /\ pc = "match"
    /\ pos >= 0
    /\ ~BrandMismatch(ChunkAt(content, pos))
    /\ LET c == ChunkAt(content, pos)
           r == parse_chunk(impl, c)
       IN  /\ calls' = Append(calls, [pos |-> pos, kind |-> r.kind,
                                      len |-> Len(c)])
           /\ IF r.kind = "raise" /\ ~CaughtByParse(r.exc)
              THEN /\ pc' = "raised"
                   /\ error' = r.exc
                   /\ UNCHANGED <<points, offset>>
              ELSE /\ points' = AppendPoint(points, r)
                   /\ offset' = AdvanceFrom(pos)
                   /\ pc' = "find"
                   /\ UNCHANGED error
    /\ UNCHANGED restVars
    /\ UNCHANGED <<impl, filepath, file, content, pos, track, decodeVars,
                   io, detectVars, extractVars>>

\* if pos < 0: break; return GPSTrack(...)
ScanEnd ==
    /\ pc = "match"
    /\ pos < 0
    /\ track' = Some(GPSTrack(points, filepath, DeviceInfo))
    /\ pc' = "done"
    /\ UNCHANGED restVars
    /\ UNCHANGED <<impl, filepath, file, content, offset, pos, points, calls,
                   decodeVars, io, error, detectVars, extractVars>>

\* the variables of the calls that are not running
NoDecode == chunk = << >> /\ dpc = "idle" /\ ret = Rejected
NoDetect == pad = 0 /\ cpc = "idle" /\ can = FALSE
NoExtract == epc = "idle" /\ parser = None /\ asked = << >>
NoCodec == deg = 0 /\ enc = None /\ dec = None
NoModel == pt = None /\ trk = None /\ res = None
NoBatch ==
    inputs = << >> /\ opts = None /\ idx = 0 /\ bpc = "idle" /\ log = << >>
NoTwin == saved = None /\ turn = 0
NoRest == NoCodec /\ NoModel /\ NoBatch /\ NoTwin
NoParse ==
    /\ pc = "idle"
    /\ content = << >>
    /\ offset = 0
    /\ pos = 0
    /\ points = << >>
    /\ track = None
    /\ calls = << >>

Init ==
    /\ impl \in DatetimeImpls
    /\ filepath \in Paths
    /\ \/ io = "" /\ file \in Files
       \/ io \in OSErrorSubclasses /\ file \in UnreadableFiles
    /\ pc = "start"
    /\ content = << >>
    /\ offset = 0
    /\ pos = 0
    /\ points = << >>
    /\ track = None
    /\ calls = << >>
    /\ error = ""
    /\ NoDecode /\ NoDetect /\ NoExtract /\ NoRest

Next ==
    \/ ReadFile \/ ReadFail
    \/ FindMarker \/ ScanFalsePositive \/ ScanCandidate \/ ScanEnd

Spec == Init /\ [][Next]_vars

(***************************************************************************)
(* A direct call of YouqingParser._parse_chunk                             *)
(***************************************************************************)
ParseChunk ==
    /\ dpc = "call"
    /\ ret' = parse_chunk(impl, chunk)
    /\ dpc' = "returned"
    /\ UNCHANGED restVars
    /\ UNCHANGED <<impl, chunk, parseVars, io, error, detectVars, extractVars>>

DecodeInit ==
    /\ impl \in DatetimeImpls
    /\ chunk \in DecodeInputs
    /\ dpc = "call"
    /\ ret = Rejected
    /\ filepath = "a.mp4"
    /\ file = << >>
    /\ pc = "idle"
    /\ content = << >>
    /\ offset = 0
    /\ pos = 0
    /\ points = << >>
    /\ track = None
    /\ calls = << >>
    /\ io = ""
    /\ error = ""
    /\ NoDetect /\ NoExtract /\ NoRest

DecodeNext == ParseChunk

DecodeSpec == DecodeInit /\ [][DecodeNext]_vars

(***************************************************************************)
(* YouqingParser.can_parse                                                 *)
(*                                                                         *)
(* A file is pad zero bytes followed by the bytes of file.  The marker     *)
(* holds no zero byte, so no occurrence of it starts in the padding, and   *)
(* the search and the slices of can_parse are those of the bytes that      *)
(* follow the padding, clipped to what the read returned.                  *)
(***************************************************************************)
\* f.read(10 * 1024 * 1024)
ReadLimit == 10 * 1024 * 1024

\* fault: f.read()
ReadPrefix_Whole(pd, bytes, n) == bytes

\* f.read(n): the bytes after the padding that lie in the first n bytes
ReadPrefix(pd, bytes, n) == IF pd >= n THEN << >> ELSE Slice(bytes, 0, n - pd)

\* fault: except FileNotFoundError
CaughtByCanParse_MissingOnly(e) == e = "FileNotFoundError"

\* except (OSError, IOError): return False
CaughtByCanParse(e) == e \in OSErrorSubclasses

\* pos = chunk.find(MARKER_FREE_GPS); if pos < 0: return False;
\* return chunk[pos + 12 : pos + 22] == MARKER_YOUQING
can_parse(i, pd, bytes) ==
    IF i # ""
    THEN IF CaughtByCanParse(i) THEN [exc |-> "", val |-> FALSE]
         ELSE [exc |-> i, val |-> FALSE]
    ELSE LET head == ReadPrefix(pd, bytes, ReadLimit)
             p    == Find(head, MARKER_FREE_GPS, 0)
         IN  [exc |-> "",
              val |-> IF p < 0 THEN FALSE
                      ELSE Slice(head, p + 12, p + 22) = MARKER_YOUQING]

\* a direct call of can_parse
CanParse ==
    /\ cpc = "call"
    /\ LET r == can_parse(io, pad, file)
       IN  IF r.exc = ""
           THEN can' = r.val /\ cpc' = "returned" /\ UNCHANGED error
           ELSE error' = r.exc /\ cpc' = "raised" /\ UNCHANGED can
    /\ UNCHANGED restVars
    /\ UNCHANGED <<impl, filepath, file, io, pad, parseVars, decodeVars,
                   extractVars>>

\* the caller goes on to call parse, whatever can_parse answered
DirectParse ==
    /\ cpc = "returned"
    /\ pc = "idle"
    /\ pad = 0
    /\ pc' = "start"
    /\ UNCHANGED restVars
    /\ UNCHANGED <<impl, filepath, file, io, error, content, offset, pos,
                   points, track, calls, decodeVars, detectVars, extractVars>>

\* the bytes that follow the padding
DetectTails ==
    {<< >>, SegFree, SegMarker, SegTrunc, SegForeign, SegGood,
     SegForeign \o SegGood, SegGood \o SegForeign, SegFree \o SegGood,
     SegZero \o SegShort, SegNoSpace}

\* the padding: none, or as much as puts the end of a record, of its brand
\* identifier or of its marker at or across the end of what is read
Pads ==
    {0, ReadLimit - 134, ReadLimit - 112, ReadLimit - 22, ReadLimit - 21,
     ReadLimit - 8, ReadLimit - 4, ReadLimit}

DetectInit ==
    /\ impl \in DatetimeImpls
    /\ filepath \in Paths
    /\ io \in {""} \cup OSErrorSubclasses
    /\ file \in DetectTails
    /\ pad \in Pads
    /\ cpc = "call"
    /\ can = FALSE
    /\ error = ""
    /\ NoParse /\ NoDecode /\ NoExtract /\ NoRest

DetectNext ==
    \/ CanParse \/ DirectParse
    \/ ReadFile \/ ReadFail
    \/ FindMarker \/ ScanFalsePositive \/ ScanCandidate \/ ScanEnd

DetectSpec == DetectInit /\ [][DetectNext]_vars

(***************************************************************************)
(* extract_telemetry and get_parser                                        *)
(***************************************************************************)
\* PARSERS = [YouqingParser()]
PARSERS == <<"YouqingParser">>

\* fault: the last parser of the registry is returned when none accepts
GetParserFound_Fallback(answers) == Len(answers) >= 1

\* if parser.can_parse(path): return parser
GetParserFound(answers) ==
    Len(answers) >= 1 /\ answers[Len(answers)].answer

\* for parser in PARSERS: parser.can_parse(path)
GetParserAsk ==
    /\ epc = "get_parser"
    /\ ~GetParserFound(asked)
    /\ Len(asked) < Len(PARSERS)
    /\ LET r == can_parse(io, pad, file)
       IN  IF r.exc = ""
           THEN /\ asked' = Append(asked, [parser |-> PARSERS[Len(asked) + 1],
                                           answer |-> r.val])
                /\ UNCHANGED <<epc, error>>
           ELSE /\ error' = r.exc
                /\ epc' = "raised"
                /\ UNCHANGED asked
    /\ UNCHANGED restVars
    /\ UNCHANGED <<impl, filepath, file, io, parser, parseVars, decodeVars,
                   detectVars>>

\* return parser
GetParserReturn ==
    /\ epc = "get_parser"
    /\ GetParserFound(asked)
    /\ parser' = Some(asked[Len(asked)].parser)
    /\ epc' = "found"
    /\ UNCHANGED restVars
    /\ UNCHANGED <<impl, filepath, file, io, error, asked, parseVars,
                   decodeVars, detectVars>>

\* raise UnsupportedFormatError(...)
GetParserNone ==
    /\ epc = "get_parser"
    /\ ~GetParserFound(asked)
    /\ Len(asked) >= Len(PARSERS)
    /\ error' = "UnsupportedFormatError"
    /\ epc' = "raised"
    /\ UNCHANGED restVars
    /\ UNCHANGED <<impl, filepath, file, io, parser, asked, parseVars,
                   decodeVars, detectVars>>

\* the file is removed by another process after the detector closed it
FileRemoved ==
    /\ epc = "found"
    /\ io = ""
    /\ io' = "FileNotFoundError"
    /\ UNCHANGED restVars
    /\ UNCHANGED <<impl, filepath, file, error, parseVars, decodeVars,
                   detectVars, extractVars>>

\* return parser.parse(Path(filepath)): the call
ExtractParse ==
    /\ epc = "found"
    /\ pc = "idle"
    /\ pc' = "start"
    /\ epc' = "parse"
    /\ UNCHANGED restVars
    /\ UNCHANGED <<impl, filepath, file, io, error, content, offset, pos,
                   points, track, calls, parser, asked, decodeVars, detectVars>>

\* return parser.parse(Path(filepath)): parse returned or raised
ExtractEnd ==
    /\ epc = "parse"
    /\ pc \in {"done", "failed", "raised"}
    /\ epc' = IF pc = "done" THEN "returned" ELSE "raised"
    /\ UNCHANGED restVars
    /\ UNCHANGED <<impl, filepath, file, io, error, parser, asked, parseVars,
                   decodeVars, detectVars>>

\* the files extract_telemetry is called on
ExtractFiles ==
    {<< >>, SegFree, SegMarker, SegForeign, SegGood, SegForeign \o SegGood,
     SegGood \o SegForeign, SegGood \o SegShort, SegZero \o SegOverflow,
     SegShort \o SegGood, SegTrunc, SegNaN, SegNoSpace}

ExtractInit ==
    /\ impl \in DatetimeImpls
    /\ filepath \in Paths
    /\ \/ io = "" /\ file \in ExtractFiles
       \/ io \in OSErrorSubclasses /\ file \in UnreadableFiles
    /\ epc = "get_parser"
    /\ parser = None
    /\ asked = << >>
    /\ error = ""
    /\ NoParse /\ NoDecode /\ NoDetect /\ NoRest

ExtractNext ==
    \/ GetParserAsk \/ GetParserReturn \/ GetParserNone
    \/ FileRemoved \/ ExtractParse \/ ExtractEnd
    \/ ReadFile \/ ReadFail
    \/ FindMarker \/ ScanFalsePositive \/ ScanCandidate \/ ScanEnd

ExtractSpec == ExtractInit /\ [][ExtractNext]_vars

(***************************************************************************)
(* utils/nmea.py: decimal_to_nmea, and the round trip through both         *)
(* functions                                                               *)
(***************************************************************************)
Abs(x) == IF x < 0 THEN -x ELSE x

\* decimal_to_nmea: degrees = int(abs(d)); minutes = (abs(d) - degrees) * 60;
\* degrees * 100 + minutes.  d is in units of 1/(60 * 2^FracBits) degree,
\* the result a float as UnpackF32 gives it.
decimal_to_nmea(d) ==
    LET unit    == 2^FracBits
        degrees == Abs(d) \div (60 * unit)
        minutes == Abs(d) - degrees * 60 * unit
        mag     == degrees * 100 * unit + minutes
    IN  [neg |-> FALSE, cls |-> IF mag = 0 THEN "zero" ELSE "num", mag |-> mag]

\* the call decimal_to_nmea(deg)
Encode ==
    /\ enc = None
    /\ enc' = Some(decimal_to_nmea(deg))
    /\ UNCHANGED <<impl, deg, dec, parseVars, decodeVars, io, error,
                   detectVars, extractVars, modelVars, batchVars, twinVars>>

\* the call nmea_to_decimal(enc)
Decode ==
    /\ enc # None
    /\ dec = None
    /\ dec' = Some(nmea_to_decimal(enc[1]))
    /\ UNCHANGED <<impl, deg, enc, parseVars, decodeVars, io, error,
                   detectVars, extractVars, modelVars, batchVars, twinVars>>

\* whole degrees and minutes of the arguments: each with no minutes, with
\* the least fraction of a minute, with 30 minutes and with the most
DegreeParts == {0, 1, 9, 10, 38, 77, 89, 90, 99, 100, 179}
MinuteParts == {0, 1, 30 * 2^FracBits, 60 * 2^FracBits - 1}

\* decimal degrees d with |d| < 180, of both signs
DegreeInputs ==
    {sg * (dd * 60 * 2^FracBits + mm) :
        sg \in {1, -1}, dd \in DegreeParts, mm \in MinuteParts}

CodecInit ==
    /\ impl \in DatetimeImpls
    /\ deg \in DegreeInputs
    /\ enc = None
    /\ dec = None
    /\ filepath = "a.mp4"
    /\ file = << >>
    /\ io = ""
    /\ error = ""
    /\ NoParse /\ NoDecode /\ NoDetect /\ NoExtract
    /\ NoModel /\ NoBatch /\ NoTwin

CodecNext == Encode \/ Decode

CodecSpec == CodecInit /\ [][CodecNext]_vars

(***************************************************************************)
(* models.py: GPSPoint.is_valid, GPSTrack.filter_valid, GPSTrack.duration  *)
(***************************************************************************)
\* most points of a track the methods are called on
MaxPoints == 3

\* d whole degrees, in the unit the coordinates of a GPSPoint are held in
Degrees(d) == d * 60 * 2^FracBits

\* fault: the bounds are exclusive
is_valid_Exclusive(p) ==
    /\ -Degrees(90) < p.latitude /\ p.latitude < Degrees(90)
    /\ -Degrees(180) < p.longitude /\ p.longitude < Degrees(180)
    /\ p.fix_quality > 0

\* -90 <= latitude <= 90 and -180 <= longitude <= 180 and fix_quality > 0
is_valid(p) ==
    /\ -Degrees(90) <= p.latitude /\ p.latitude <= Degrees(90)
    /\ -Degrees(180) <= p.longitude /\ p.longitude <= Degrees(180)
    /\ p.fix_quality > 0

\* [p for p in self.points if p.is_valid()]
RECURSIVE ValidPoints(_)
ValidPoints(ps) ==
    IF ps = << >> THEN << >>
    ELSE (IF is_valid(Head(ps)) THEN <<Head(ps)>> ELSE << >>)
         \o ValidPoints(Tail(ps))

\* fault: self.points is replaced by the filtered list
filter_valid_InPlace(t) ==
    LET kept == GPSTrack(ValidPoints(t.points), t.source_file, t.device_info)
    IN  [self |-> kept, val |-> kept]

\* filter_valid: the track after the call (self) and the returned track
filter_valid(t) ==
    [self |-> t,
     val  |-> GPSTrack(ValidPoints(t.points), t.source_file, t.device_info)]

\* days from 2000-01-01 to the first day of year y, for y >= 2000
DaysBeforeYear(y) ==
    365 * (y - 2000)
    + ((y - 1) \div 4 - (y - 1) \div 100 + (y - 1) \div 400)
    - (1999 \div 4 - 1999 \div 100 + 1999 \div 400)

RECURSIVE DaysBeforeMonth(_, _)
DaysBeforeMonth(y, m) ==
    IF m = 1 THEN 0 ELSE DaysBeforeMonth(y, m - 1) + DaysInMonth(y, m - 1)

\* (t - datetime(2000, 1, 1)).total_seconds()
TotalSeconds(t) ==
    (DaysBeforeYear(t.year) + DaysBeforeMonth(t.year, t.month) + t.day - 1)
        * 86400
    + t.hour * 3600 + t.minute * 60 + t.second

\* fault: None when any point of the track has no timestamp
duration_AllStamped(t) ==
    IF Len(t.points) < 2 \/ \E i \in 1..Len(t.points) :
                                t.points[i].timestamp = None
    THEN None
    ELSE Some(TotalSeconds(t.points[Len(t.points)].timestamp[1])
              - TotalSeconds(t.points[1].timestamp[1]))

\* duration: None, or (last - first).total_seconds()
duration(t) ==
    IF Len(t.points) < 2 THEN None
    ELSE LET first == t.points[1].timestamp
             last  == t.points[Len(t.points)].timestamp
         IN  IF first = None \/ last = None THEN None
             ELSE Some(TotalSeconds(last[1]) - TotalSeconds(first[1]))

\* the call pt.is_valid()
IsValid ==
    /\ pt # None
    /\ res = None
    /\ res' = Some([op |-> "is_valid", val |-> is_valid(pt[1])])
    /\ UNCHANGED <<impl, pt, trk, parseVars, decodeVars, io, error,
                   detectVars, extractVars, codecVars, batchVars, twinVars>>

\* the call trk.filter_valid()
FilterValid ==
    /\ trk # None
    /\ res = None
    /\ LET r == filter_valid(trk[1])
       IN  /\ trk' = Some(r.self)
           /\ res' = Some([op |-> "filter_valid", val |-> r.val])
    /\ UNCHANGED <<impl, pt, parseVars, decodeVars, io, error,
                   detectVars, extractVars, codecVars, batchVars, twinVars>>

\* the property read trk.duration
Duration ==
    /\ trk # None
    /\ res = None
    /\ res' = Some([op |-> "duration", val |-> duration(trk[1])])
    /\ UNCHANGED <<impl, pt, trk, parseVars, decodeVars, io, error,
                   detectVars, extractVars, codecVars, batchVars, twinVars>>

\* points on, next to and between the bounds of is_valid
ValidityPoints ==
    {GPSPoint(la, lo, None, 0, 0, fq) :
        la \in {-Degrees(90) - 1, -Degrees(90), 0, Degrees(90), Degrees(90) + 1},
        lo \in {-Degrees(180) - 1, -Degrees(180), 0, Degrees(180),
                Degrees(180) + 1},
        fq \in {-1, 0, 1, 2}}

Stamp(y, mo, d, h, mi, se) ==
    [year |-> y, month |-> mo, day |-> d, hour |-> h, minute |-> mi,
     second |-> se]

\* the points of the tracks: valid and not, with a timestamp and without
PointA == GPSPoint(-Degrees(38), Degrees(77), Some(Stamp(2024, 4, 20, 14, 24, 12)),
                   0, 0, 1)
PointB == GPSPoint(-Degrees(38), Degrees(77), Some(Stamp(2024, 4, 20, 14, 24, 13)),
                   0, 0, 0)
PointC == GPSPoint(Degrees(38), -Degrees(77), None, 0, 0, 1)
PointD == GPSPoint(Degrees(100), Degrees(77), Some(Stamp(2024, 4, 21, 0, 0, 0)),
                   0, 0, 1)
PointE == GPSPoint(Degrees(90), Degrees(77), Some(Stamp(2024, 2, 28, 23, 59, 59)),
                   0, 0, 2)
PointF == GPSPoint(0, -Degrees(180), Some(Stamp(2025, 1, 1, 0, 0, 0)), 0, 0, 1)
TrackPoints == {PointA, PointB, PointC, PointD, PointE, PointF}

TestTracks ==
    {GPSTrack(ps, "a.mp4", DeviceInfo) :
        ps \in UNION {[1..n -> TrackPoints] : n \in 0..MaxPoints}}

ModelInit ==
    /\ impl \in DatetimeImpls
    /\ \/ pt \in {Some(p) : p \in ValidityPoints} /\ trk = None
       \/ pt = None /\ trk \in {Some(t) : t \in TestTracks}
    /\ res = None
    /\ filepath = "a.mp4"
    /\ file = << >>
    /\ io = ""
    /\ error = ""
    /\ NoParse /\ NoDecode /\ NoDetect /\ NoExtract
    /\ NoCodec /\ NoBatch /\ NoTwin

ModelNext == IsValid \/ FilterValid \/ Duration

ModelSpec == ModelInit /\ [][ModelNext]_vars

(***************************************************************************)
(* cli.py: cmd_extract over several input files                            *)
(*                                                                         *)
(* Each input runs extract_telemetry as modelled above, from a fresh call; *)
(* the verbose printing changes nothing and is left out.                   *)
(***************************************************************************)
\* most input files of a run
MaxBatch == 2

\* fault: except UnsupportedFormatError only
CaughtByExtract_UnsupportedOnly(e) == e = "UnsupportedFormatError"

\* except UnsupportedFormatError ... except ParseError ...: continue
CaughtByExtract(e) == e \in {"UnsupportedFormatError", "ParseError"}

\* out_path: args.output, or args.output_dir / stem, or beside the input
OutPath(o, name) ==
    IF o.output = "file" THEN [at |-> "output", stem |-> ""]
    ELSE IF o.output = "dir" THEN [at |-> "output_dir", stem |-> name]
    ELSE [at |-> "input_dir", stem |-> name]

\* if skip_invalid: track = track.filter_valid()
ToExport(o, t) == IF o.skip_invalid THEN filter_valid(t).val ELSE t

\* if not input_path.exists(): print(...); continue
BatchNotFound ==
    /\ bpc = "next"
    /\ idx < Len(inputs)
    /\ ~inputs[idx + 1].exists
    /\ idx' = idx + 1
    /\ log' = Append(log, [input |-> idx + 1, outcome |-> "not_found",
                           error |-> "", path |-> None, track |-> None])
    /\ UNCHANGED <<impl, inputs, opts, bpc, parseVars, decodeVars, io, error,
                   detectVars, extractVars, codecVars, modelVars, twinVars>>

\* track = extract_telemetry(str(input_path)): the call
BatchExtract ==
    /\ bpc = "next"
    /\ idx < Len(inputs)
    /\ inputs[idx + 1].exists
    /\ idx' = idx + 1
    /\ filepath' = inputs[idx + 1].name
    /\ file' = inputs[idx + 1].bytes
    /\ io' = inputs[idx + 1].io
    /\ error' = ""
    /\ epc' = "get_parser"
    /\ parser' = None
    /\ asked' = << >>
    /\ pc' = "idle"
    /\ content' = << >>
    /\ offset' = 0
    /\ pos' = 0
    /\ points' = << >>
    /\ track' = None
    /\ calls' = << >>
    /\ bpc' = "extract"
    /\ UNCHANGED <<impl, inputs, opts, log, decodeVars, detectVars,
                   codecVars, modelVars, twinVars>>

\* extract_telemetry raised: the error is printed and the loop goes on, or
\* the exception is none of those caught and leaves cmd_extract
BatchReport ==
    /\ bpc = "extract"
    /\ epc = "raised"
    /\ IF CaughtByExtract(error)
       THEN /\ log' = Append(log, [input |-> idx, outcome |-> "error",
                                   error |-> error, path |-> None,
                                   track |-> None])
            /\ bpc' = "next"
       ELSE /\ bpc' = "crashed"
            /\ UNCHANGED log
    /\ UNCHANGED <<impl, inputs, opts, idx, parseVars, decodeVars, io, error,
                   detectVars, extractVars, codecVars, modelVars, twinVars>>

\* export_track(track, out_path, output_format) writes the file
BatchExport ==
    /\ bpc = "extract"
    /\ epc = "returned"
    /\ log' = Append(log, [input |-> idx, outcome |-> "exported",
                           error |-> "",
                           path |-> Some(OutPath(opts[1], filepath)),
                           track |-> Some(ToExport(opts[1], track[1]))])
    /\ bpc' = "next"
    /\ UNCHANGED <<impl, inputs, opts, idx, parseVars, decodeVars, io, error,
                   detectVars, extractVars, codecVars, modelVars, twinVars>>

\* export_track raises: the output cannot be written, and nothing in
\* cmd_extract catches it
BatchExportFail ==
    /\ bpc = "extract"
    /\ epc = "returned"
    /\ log' = Append(log, [input |-> idx, outcome |-> "export_failed",
                           error |-> "OSError", path |-> None,
                           track |-> None])
    /\ bpc' = "crashed"
    /\ UNCHANGED <<impl, inputs, opts, idx, parseVars, decodeVars, io, error,
                   detectVars, extractVars, codecVars, modelVars, twinVars>>

\* return 0
BatchReturn ==
    /\ bpc = "next"
    /\ idx >= Len(inputs)
    /\ bpc' = "done"
    /\ UNCHANGED <<impl, inputs, opts, idx, log, parseVars, decodeVars, io,
                   error, detectVars, extractVars, codecVars, modelVars,
                   twinVars>>

\* the input files: one that does not exist, one that may not be read, one
\* of another brand, one with a record, one with a valid sample, a false
\* positive and an invalid sample
InputFiles ==
    {[name |-> "missing.mp4", exists |-> FALSE, io |-> "FileNotFoundError",
      bytes |-> << >>],
     [name |-> "denied.mp4", exists |-> TRUE, io |-> "PermissionError",
      bytes |-> SegGood],
     [name |-> "foreign.mp4", exists |-> TRUE, io |-> "",
      bytes |-> SegForeign],
     [name |-> "good.mp4", exists |-> TRUE, io |-> "", bytes |-> SegGood],
     [name |-> "mixed.mp4", exists |-> TRUE, io |-> "",
      bytes |-> SegGood \o SegForeign \o SegShort]}

Options ==
    {[skip_invalid |-> sk, output |-> out] :
        sk \in BOOLEAN, out \in {"file", "dir", "beside"}}

BatchInit ==
    /\ impl \in DatetimeImpls
    /\ inputs \in UNION {[1..n -> InputFiles] : n \in 1..MaxBatch}
    /\ opts \in {Some(o) : o \in Options}
    /\ idx = 0
    /\ bpc = "next"
    /\ log = << >>
    /\ filepath = ""
    /\ file = << >>
    /\ io = ""
    /\ error = ""
    /\ NoParse /\ NoDecode /\ NoDetect /\ NoExtract
    /\ NoCodec /\ NoModel /\ NoTwin

BatchNext ==
    \/ BatchNotFound \/ BatchExtract \/ BatchReport
    \/ BatchExport \/ BatchExportFail \/ BatchReturn
    \/ GetParserAsk \/ GetParserReturn \/ GetParserNone
    \/ FileRemoved \/ ExtractParse \/ ExtractEnd
    \/ ReadFile \/ ReadFail
    \/ FindMarker \/ ScanFalsePositive \/ ScanCandidate \/ ScanEnd

BatchSpec == BatchInit /\ [][BatchNext]_vars

(***************************************************************************)
(* Two calls of parse on the one YouqingParser of PARSERS, interleaved     *)
(*                                                                         *)
(* The running call works on the variables of parse above; the suspended   *)
(* call's arguments and locals are kept in saved.  YouqingParser assigns   *)
(* no attribute of self, so a call has its locals and nothing else.        *)
(***************************************************************************)
\* most switches between the two calls
MaxSwitches == 3

\* the arguments and locals of the running call
Running ==
    [filepath |-> filepath, file |-> file, io |-> io, pc |-> pc,
     content |-> content, offset |-> offset, pos |-> pos, points |-> points,
     track |-> track, calls |-> calls, error |-> error]

\* fault: points is an attribute of the parser, one list for both calls
ResumePoints_Shared(own, running) == running

\* points: list[GPSPoint] = [] is a local: a resumed call finds its own list
ResumePoints(own, running) == own

\* a call has returned or raised
Finished(fr) == fr.pc \in {"done", "failed"}

\* the running call is suspended and the other one resumed
Switch ==
    /\ saved # None
    /\ turn < MaxSwitches
    /\ ~Finished(saved[1])
    /\ turn' = turn + 1
    /\ saved' = Some(Running)
    /\ filepath' = saved[1].filepath
    /\ file' = saved[1].file
    /\ io' = saved[1].io
    /\ pc' = saved[1].pc
    /\ content' = saved[1].content
    /\ offset' = saved[1].offset
    /\ pos' = saved[1].pos
    /\ points' = ResumePoints(saved[1].points, points)
    /\ track' = saved[1].track
    /\ calls' = saved[1].calls
    /\ error' = saved[1].error
    /\ UNCHANGED <<impl, decodeVars, detectVars, extractVars, codecVars,
                   modelVars, batchVars>>

\* the files the two calls are given
TwinInputs ==
    {[filepath |-> "a.mp4", file |-> SegGood, io |-> ""],
     [filepath |-> "b.mp4", file |-> SegGood, io |-> ""],
     [filepath |-> "a.mp4", file |-> SegShort \o SegGood, io |-> ""],
     [filepath |-> "b.mp4", file |-> SegForeign \o SegZero \o SegGood,
      io |-> ""],
     [filepath |-> "a.mp4", file |-> SegGood, io |-> "PermissionError"],
     [filepath |-> "b.mp4", file |-> SegFree, io |-> ""]}

\* a call that has not begun
Called(in) ==
    [filepath |-> in.filepath, file |-> in.file, io |-> in.io, pc |-> "start",
     content |-> << >>, offset |-> 0, pos |-> 0, points |-> << >>,
     track |-> None, calls |-> << >>, error |-> ""]

TwinInit ==
    /\ impl \in DatetimeImpls
    /\ \E in \in TwinInputs :
          /\ filepath = in.filepath
          /\ file = in.file
          /\ io = in.io
    /\ pc = "start"
    /\ content = << >>
    /\ offset = 0
    /\ pos = 0
    /\ points = << >>
    /\ track = None
    /\ calls = << >>
    /\ error = ""
    /\ saved \in {Some(Called(in)) : in \in TwinInputs}
    /\ turn = 0
    /\ NoDecode /\ NoDetect /\ NoExtract /\ NoCodec /\ NoModel /\ NoBatch

TwinNext ==
    \/ ReadFile \/ ReadFail
    \/ FindMarker \/ ScanFalsePositive \/ ScanCandidate \/ ScanEnd
    \/ Switch

TwinSpec == TwinInit /\ [][TwinNext]_vars

(***************************************************************************)
(* Definitions the properties are stated with                              *)
(***************************************************************************)
\* the offsets at which the 8-byte marker occurs in buf
MarkerOffsets(buf) ==
    {p \in 0..(Len(buf) - 8) :
        \A i \in 1..8 : buf[p + i] = MARKER_FREE_GPS[i]}

\* whether the 10 bytes at p+12 are the brand identifier
BrandAt(buf, p) ==
    /\ p + 22 <= Len(buf)
    /\ \A i \in 1..10 : buf[p + 12 + i] = MARKER_YOUQING[i]

\* the offsets of the records: the marker, and the brand identifier at +12
RecordOffsets(buf) == {p \in MarkerOffsets(buf) : BrandAt(buf, p)}

\* the window content[p : p+256], truncated at the end of the buffer
Window(buf, p) ==
    [i \in 1..(IF Len(buf) - p < 256 THEN Len(buf) - p ELSE 256) |-> buf[p + i]]

RECURSIVE Ascending(_)
Ascending(S) ==
    IF S = {} THEN << >>
    ELSE LET m == CHOOSE x \in S : \A y \in S : x <= y
         IN  <<m>> \o Ascending(S \ {m})

\* the calls that handed a candidate to the decoder, and their offsets
IsCandidateCall(c) == c.kind # "skip"
CandidateCalls == SelectSeq(calls, IsCandidateCall)
Positions(cs) == [i \in 1..Len(cs) |-> cs[i].pos]

\* the samples the decoder gives for the windows at the offsets ps, in order
RECURSIVE SamplesAt(_, _, _)
SamplesAt(im, buf, ps) ==
    IF ps = << >> THEN << >>
    ELSE LET r == parse_chunk(im, Window(buf, Head(ps)))
         IN  (IF r.kind = "point" THEN r.point ELSE << >>)
             \o SamplesAt(im, buf, Tail(ps))

(***************************************************************************)
(* C1..C6: the scan loop of parse                                          *)
(***************************************************************************)
\* C1: parse never raises because of one record.  A candidate the decoder
\* rejects, or whose decoding raises, is skipped with the cursor at match+8,
\* and every candidate of the buffer that decodes to a sample is in the
\* returned track.
C1_BadRecordIsSkipped ==
    /\ pc # "raised"
    /\ (pc = "find" /\ calls # << >>) =>
            offset = calls[Len(calls)].pos + 8
    /\ pc = "done" =>
        /\ Len(track) = 1
        /\ \A p \in RecordOffsets(content) :
             LET r == parse_chunk(impl, Window(content, p))
             IN  r.kind = "point" =>
                    \E i \in 1..Len(track[1].points) :
                        track[1].points[i] = r.point[1]

\* a finished parse that met a raising and a rejected candidate before a
\* candidate that decoded
C1_Witness ==
    /\ pc = "done"
    /\ \E i, j, k \in 1..Len(calls) :
         /\ i < k /\ j < k
         /\ calls[i].kind = "raise"
         /\ calls[j].kind = "none"
         /\ calls[k].kind = "point"
    /\ Len(track[1].points) >= 1

\* C2: the scan loop terminates.  The cursor never moves backward, every
\* iteration that finds the marker sets it to match+8, which is beyond its
\* old value and within the buffer, so at most len(content)/8 iterations
\* run; and the loop ends exactly when no marker occurs at or after the
\* cursor.
C2_ScanTerminates ==
    /\ [][/\ offset' >= offset
          /\ (pc = "match" /\ pos >= 0) =>
                (offset' = pos + 8 /\ offset' > offset /\ pc' = "find")
          /\ pc = "match" =>
                /\ pc' \in {"find", "done"}
                /\ pc' = "done" <=>
                    \A p \in offset..(Len(content) - 8) :
                        \E i \in 1..8 : content[p + i] # MARKER_FREE_GPS[i]
         ]_vars
    /\ [](offset <= Len(content) /\ 8 * Len(calls) <= offset)

\* a finished scan that iterated over a false positive and over a candidate
C2_Witness ==
    /\ pc = "done"
    /\ \E i, j \in 1..Len(calls) :
         calls[i].kind = "skip" /\ calls[j].kind # "skip"

\* C3: a marker occurrence without the brand identifier at +12 is never
\* handed to the decoder and contributes no sample; a buffer with only such
\* occurrences gives no candidate and an empty track, and the scan moves
\* past each of them.
C3_FalsePositiveNeverDecoded ==
    /\ \A i \in 1..Len(calls) :
         ~BrandAt(content, calls[i].pos) => calls[i].kind = "skip"
    /\ Len(points) <= Len(CandidateCalls)
    /\ (pc = "find" /\ calls # << >> /\ calls[Len(calls)].kind = "skip") =>
            offset = calls[Len(calls)].pos + 8
    /\ (pc = "done" /\ RecordOffsets(content) = {}) =>
        /\ CandidateCalls = << >>
        /\ track[1].points = << >>
        /\ {calls[i].pos : i \in 1..Len(calls)} = MarkerOffsets(content)

\* a finished scan of a buffer with two or more marker occurrences, none
\* with the brand identifier
C3_Witness ==
    /\ pc = "done"
    /\ Cardinality(MarkerOffsets(content)) >= 2
    /\ RecordOffsets(content) = {}
    /\ Len(calls) >= 2

\* C4: the candidates handed to the decoder are exactly the windows
\* content[p : p+256] at the offsets p where the marker occurs with the
\* brand identifier at p+12, each once and in ascending order; none is
\* skipped, overlapping windows included.
C4_CandidatesAreTheRecords ==
    /\ \A i \in 1..Len(calls) :
         /\ calls[i].len = Len(Window(content, calls[i].pos))
         /\ calls[i].kind # "skip" <=> BrandAt(content, calls[i].pos)
         /\ i > 1 => calls[i - 1].pos < calls[i].pos
    /\ pc = "done" =>
        /\ Positions(CandidateCalls) = Ascending(RecordOffsets(content))
        /\ \A i \in 1..Len(calls) :
             calls[i].kind # "skip" =>
                calls[i].kind
                    = parse_chunk(impl, Window(content, calls[i].pos)).kind

\* a finished scan with two candidates whose 256-byte windows overlap
C4_Witness ==
    /\ pc = "done"
    /\ \E i, j \in 1..Len(calls) :
         /\ calls[i].kind # "skip" /\ calls[j].kind # "skip"
         /\ calls[i].pos < calls[j].pos
         /\ calls[j].pos < calls[i].pos + 256

\* C6: the returned track holds exactly the samples decoded from the
\* accepted candidates, one each, in ascending offset, duplicates kept,
\* with source_file the parsed path and device_info {"format":
\* "YOUQINGGPS"}, also when no sample was found.
C6_TrackIsAccumulation ==
    /\ pc # "done" => track = << >>
    /\ pc = "done" =>
         track = <<[points |-> SamplesAt(impl, content,
                                         Ascending(RecordOffsets(content))),
                    source_file |-> filepath,
                    device_info |-> [format |-> "YOUQINGGPS"]]>>

\* a returned track whose first two samples are equal
C6_Witness ==
    /\ pc = "done"
    /\ Len(track[1].points) >= 2
    /\ track[1].points[1] = track[1].points[2]

(***************************************************************************)
(* C7..C10: the record decoder, called directly                            *)
(***************************************************************************)
\* the four bytes of the candidate at Python offsets [a, a+4)
Field(c, a) == <<c[a + 1], c[a + 2], c[a + 3], c[a + 4]>>

\* the value of a 32-bit unsigned field that is below 65536
SmallField(c, a) ==
    IF c[a + 3] = 0 /\ c[a + 4] = 0
    THEN Some(c[a + 1] + 256 * c[a + 2]) ELSE None

\* whether the float field at [a, a+4) is +0.0 or -0.0
ZeroField(c, a) == Field(c, a) \in {<<0, 0, 0, 0>>, <<0, 0, 0, 128>>}

\* whether the float field at [a, a+4) is a number other than zero
NumberField(c, a) ==
    /\ ~ZeroField(c, a)
    /\ (c[a + 4] % 128) * 2 + (c[a + 3] \div 128) < 255

\* the candidate with its six date/time fields [44, 68) replaced by those
\* of 2024-04-20 14:24:12
WithValidDate(c) ==
    SubSeq(c, 1, 44) \o SubSeq(Record(BaseFields), 45, 68)
    \o SubSeq(c, 69, Len(c))

\* whether the date/time fields, with the year and the hour normalized,
\* are a real calendar date and time
RealDate(c) ==
    LET y  == SmallField(c, 44)
        mo == SmallField(c, 60)
        d  == SmallField(c, 56)
        mi == SmallField(c, 52)
        se == SmallField(c, 64)
    IN  /\ y # None /\ mo # None /\ d # None /\ mi # None /\ se # None
        /\ LET yy == IF y[1] < 100 THEN 2000 + y[1] ELSE y[1]
           IN  /\ yy \in 1..9999
               /\ mo[1] \in 1..12
               /\ d[1] >= 1
               /\ d[1] <= (IF mo[1] = 2
                           THEN (IF yy % 4 = 0 /\ (yy % 100 # 0 \/ yy % 400 = 0)
                                 THEN 29 ELSE 28)
                           ELSE IF mo[1] \in {4, 6, 9, 11} THEN 30 ELSE 31)
               /\ mi[1] \in 0..59
               /\ se[1] \in 0..59

\* C7: the decoder rejects every candidate shorter than 71 bytes, whatever
\* it holds, and raises nothing.
C7_ShortCandidateRejected ==
    (dpc = "returned" /\ Len(chunk) < 71) =>
        (ret.kind = "none" /\ ret.point = << >> /\ ret.exc = "")

\* a rejected candidate of 70 bytes that holds every date and coordinate
\* field, with nonzero coordinates
C7_Witness ==
    /\ dpc = "returned"
    /\ Len(chunk) = 70
    /\ NumberField(chunk, 36) /\ NumberField(chunk, 40)
    /\ ret.kind = "none"

\* C8: the decoder rejects every candidate whose raw latitude or raw
\* longitude is exactly 0.0, whatever the other fields hold.
C8_ZeroSentinelRejected ==
    (/\ dpc = "returned"
     /\ Len(chunk) >= 44
     /\ (ZeroField(chunk, 36) \/ ZeroField(chunk, 40))) =>
        (ret.kind = "none" /\ ret.point = << >>)

\* a full-length candidate rejected for its zero longitude alone: its
\* latitude is a nonzero number and its date is real
C8_Witness ==
    /\ dpc = "returned"
    /\ Len(chunk) = 256
    /\ NumberField(chunk, 36)
    /\ ZeroField(chunk, 40)
    /\ RealDate(chunk)
    /\ ret.kind = "none"

\* C9: a candidate that passes the length and zero checks and whose date
\* and time fields are not a real calendar date still gives a sample, with
\* the timestamp absent and latitude, longitude, speed and fix quality as
\* with a valid date; nothing is raised.
C9_BadDateKeepsSample ==
    (/\ dpc = "returned"
     /\ Len(chunk) >= 72
     /\ NumberField(chunk, 36) /\ NumberField(chunk, 40)
     /\ ~RealDate(chunk)) =>
        LET good == parse_chunk(impl, WithValidDate(chunk))
        IN  /\ ret.kind = "point"
            /\ good.kind = "point"
            /\ ret.point[1].timestamp = << >>
            /\ ret.point[1]
                 = [good.point[1] EXCEPT !.timestamp = << >>]

\* C10: a year field below 100 counts from 2000 and any other is used as
\* it is: the year fields 24 and 2024 both give a timestamp in 2024.
C10_YearNormalized ==
    (dpc = "returned" /\ ret.kind = "point") =>
        LET y == SmallField(chunk, 44)
        IN  /\ ret.point[1].timestamp # << >> =>
                /\ y # None
                /\ ret.point[1].timestamp[1].year
                     = (IF y[1] < 100 THEN 2000 + y[1] ELSE y[1])
            /\ (y \in {<<24>>, <<2024>>} /\ RealDate(chunk)) =>
                /\ ret.point[1].timestamp # << >>
                /\ ret.point[1].timestamp[1].year = 2024

\* a sample decoded from the year field 24, with a timestamp in 2024
C10_Witness ==
    /\ dpc = "returned"
    /\ ret.kind = "point"
    /\ SmallField(chunk, 44) = <<24>>
    /\ ret.point[1].timestamp # << >>
    /\ ret.point[1].timestamp[1].year = 2024

(***************************************************************************)
(* C11..C14: the fields of a decoded sample                                *)
(***************************************************************************)
\* the 32-bit unsigned field at [a, a+4) modulo 24, from its bytes: 256,
\* 65536 and 2^24 each leave 16 when divided by 24
FieldMod24(c, a) == (c[a + 1] + 16 * (c[a + 2] + c[a + 3] + c[a + 4])) % 24

\* a candidate with every field up to the status bytes, coordinates that are
\* nonzero numbers and a real calendar date
Decodable(c) ==
    /\ Len(c) >= 72
    /\ NumberField(c, 36) /\ NumberField(c, 40)
    /\ RealDate(c)

\* C11: for every value h of the hour field the timestamp's hour is h mod 24
\* (25 gives 1) and its date fields, minute and second are those read, so
\* the hour never makes the timestamp absent: a candidate whose other date
\* fields are a real date has a timestamp whatever its hour field holds.
C11_HourNormalized ==
    /\ (dpc = "returned" /\ ret.kind = "point"
            /\ ret.point[1].timestamp # << >>) =>
        LET t == ret.point[1].timestamp[1]
        IN  /\ t.hour = FieldMod24(chunk, 48)
            /\ t.hour \in 0..23
            /\ Field(chunk, 48) = <<25, 0, 0, 0>> => t.hour = 1
            /\ SmallField(chunk, 60) = <<t.month>>
            /\ SmallField(chunk, 56) = <<t.day>>
            /\ SmallField(chunk, 52) = <<t.minute>>
            /\ SmallField(chunk, 64) = <<t.second>>
    /\ (dpc = "returned" /\ Decodable(chunk)) =>
        /\ ret.kind = "point"
        /\ ret.point[1].timestamp # << >>

\* a sample whose hour field is the largest 32-bit value, 4294967295, with
\* a timestamp at hour 15
C11_Witness ==
    /\ dpc = "returned"
    /\ ret.kind = "point"
    /\ Field(chunk, 48) = <<255, 255, 255, 255>>
    /\ ret.point[1].timestamp # << >>
    /\ ret.point[1].timestamp[1].hour = 15

\* C12: the latitude is the NMEA-decoded value negated when status byte 1
\* (candidate offset 69) is 'S' and as decoded for any other byte; the
\* longitude is the NMEA-decoded value negated when status byte 2 (offset
\* 70) is 'W' and as decoded for any other byte.  3840.75 with 'S' gives
\* -(38 + 40.75/60) degrees, 7716.25 without 'W' gives +(77 + 16.25/60).
C12_HemisphereSigns ==
    (dpc = "returned" /\ ret.kind = "point") =>
        LET lat == nmea_to_decimal(UnpackF32(Field(chunk, 36))).val
            lon == nmea_to_decimal(UnpackF32(Field(chunk, 40))).val
            p   == ret.point[1]
        IN  /\ p.latitude = (IF chunk[70] = 83 THEN -lat ELSE lat)
            /\ p.longitude = (IF chunk[71] = 87 THEN -lon ELSE lon)
            /\ (Field(chunk, 36) = F_3840_75 /\ chunk[70] = 83) =>
                    p.latitude = -((38 * 240 + 163) * 2^(FracBits - 2))
            /\ (Field(chunk, 36) = F_3840_75 /\ chunk[70] # 83) =>
                    p.latitude > 0
            /\ (Field(chunk, 40) = F_7716_25 /\ chunk[71] # 87) =>
                    p.longitude = (77 * 240 + 65) * 2^(FracBits - 2)
            /\ (Field(chunk, 40) = F_7716_25 /\ chunk[71] = 87) =>
                    p.longitude < 0

\* a sample with status "ASE": the latitude negated, the longitude not
C12_Witness ==
    /\ dpc = "returned"
    /\ ret.kind = "point"
    /\ Field(chunk, 36) = F_3840_75 /\ Field(chunk, 40) = F_7716_25
    /\ chunk[70] = 83 /\ chunk[71] = 69
    /\ ret.point[1].latitude < 0
    /\ ret.point[1].longitude > 0

\* C13: a sample has fix quality 1 if status byte 0 (candidate offset 68) is
\* 'A' and 0 for every other byte, a byte that is not ASCII included: such
\* a byte is decoded with replacement and fails nothing.  The fix quality
\* is never another value.
C13_FixQuality ==
    /\ (dpc = "returned" /\ ret.kind = "point") =>
        /\ ret.point[1].fix_quality = (IF chunk[69] = 65 THEN 1 ELSE 0)
        /\ ret.point[1].fix_quality \in {0, 1}
    /\ (dpc = "returned" /\ Decodable(chunk)
            /\ \E i \in 69..71 : chunk[i] >= 128) =>
        (ret.kind = "point" /\ ret.exc = "")

\* a sample decoded from a candidate whose status byte 0 is not ASCII
C13_Witness ==
    /\ dpc = "returned"
    /\ ret.kind = "point"
    /\ chunk[69] >= 128
    /\ ret.point[1].fix_quality = 0

\* C14: the speed of a sample is in [0, 500).  It is the value of the speed
\* field [108:112) when the candidate has 112 bytes or more and that value
\* is in [0, 500); it is 0 for a shorter candidate and for a value outside
\* the range (negative, 500 or more, not a number), and in no case is the
\* sample rejected for its speed.
C14_SpeedInRange ==
    /\ (dpc = "returned" /\ ret.kind = "point") =>
        LET speed == ret.point[1].speed
        IN  /\ 0 <= speed /\ speed < 500 * 2^FracBits
            /\ Len(chunk) < 112 => speed = 0
            /\ Len(chunk) >= 112 =>
                /\ Field(chunk, 108) = F_45_5 =>
                        speed = 91 * 2^(FracBits - 1)
                /\ Field(chunk, 108) = F_499_5 =>
                        speed = 999 * 2^(FracBits - 1)
                /\ Field(chunk, 108) \in {F_500, F_600, F_m1, F_nan, F_zero} =>
                        speed = 0
    /\ (dpc = "returned" /\ Decodable(chunk)) => ret.kind = "point"

\* a sample decoded from a candidate whose speed field holds exactly 500
C14_Witness ==
    /\ dpc = "returned"
    /\ ret.kind = "point"
    /\ Len(chunk) >= 112
    /\ Field(chunk, 108) = F_500
    /\ ret.point[1].speed = 0

(***************************************************************************)
(* C15: the fields this record layout does not carry                       *)
(***************************************************************************)
\* C15: every sample of a track returned by parse, and every sample parse
\* has accumulated so far, has heading 0, no altitude, no accelerometer
\* axis and the satellite count 0.
C15_UnpopulatedFields ==
    LET Bare(p) ==
            /\ p.heading = 0
            /\ p.altitude = << >>
            /\ p.gsensor_x = << >> /\ p.gsensor_y = << >> /\ p.gsensor_z = << >>
            /\ p.satellites = 0
    IN  /\ \A i \in 1..Len(points) : Bare(points[i])
        /\ pc = "done" =>
            \A i \in 1..Len(track[1].points) : Bare(track[1].points[i])

\* a returned track with two different samples, one with a fix and a speed
C15_Witness ==
    /\ pc = "done"
    /\ Len(track[1].points) >= 2
    /\ \E i, j \in 1..Len(track[1].points) :
         /\ track[1].points[i] # track[1].points[j]
         /\ track[1].points[i].fix_quality = 1
         /\ track[1].points[i].speed > 0

(***************************************************************************)
(* C16, C17: the detector, called directly                                 *)
(***************************************************************************)
\* how many of the bytes after the padding lie in the first 10 MiB of the file
Within(pd, bytes) ==
    IF pd >= ReadLimit THEN 0 ELSE Min(Len(bytes), ReadLimit - pd)

\* whether the first occurrence of the marker that lies whole in the first
\* 10 MiB is followed at +12 by the brand identifier, whole in them too
FirstMarkerHasBrand(pd, bytes) ==
    LET n == Within(pd, bytes)
        M == {p \in 0..(n - 8) :
                \A i \in 1..8 : bytes[p + i] = MARKER_FREE_GPS[i]}
    IN  /\ M # {}
        /\ LET p == CHOOSE x \in M : \A y \in M : x <= y
           IN  /\ p + 22 <= n
               /\ \A i \in 1..10 : bytes[p + 12 + i] = MARKER_YOUQING[i]

\* whether two files are the same in their first 10 MiB
AgreeOnPrefix(p1, b1, p2, b2) ==
    /\ Min(p1, ReadLimit) = Min(p2, ReadLimit)
    /\ Within(p1, b1) = Within(p2, b2)
    /\ \A i \in 1..Within(p1, b1) : b1[i] = b2[i]

\* C16: can_parse answers from the first 10 MiB of the file alone.  It
\* returns true only if (and, as the code has it, whenever) the marker
\* occurs in them and the 10 bytes at +12 from its first occurrence are the
\* brand identifier; and it answers the same for any two files that agree
\* on their first 10 MiB.
C16_DetectorReadsPrefix ==
    (cpc = "returned" /\ io = "") =>
        /\ can = FirstMarkerHasBrand(pad, file)
        /\ \A p2 \in Pads, b2 \in DetectTails :
             AgreeOnPrefix(pad, file, p2, b2) =>
                can_parse("", p2, b2).val = can

\* a file larger than 10 MiB with a record that does not lie whole in the
\* first 10 MiB, and the answer false
C16_Witness ==
    /\ cpc = "returned"
    /\ io = ""
    /\ pad + Len(file) > ReadLimit
    /\ RecordOffsets(file) # {}
    /\ ~can

\* C17: when the file cannot be opened or read, can_parse returns false and
\* raises nothing.
C17_DetectorSwallowsIOError ==
    /\ cpc # "raised"
    /\ (cpc # "call" /\ io # "") =>
        /\ cpc = "returned"
        /\ can = FALSE
        /\ pc = "idle" => error = ""

\* can_parse returned false for a file holding a record that may not be read
C17_Witness ==
    /\ cpc = "returned"
    /\ pc = "idle"
    /\ io = "PermissionError"
    /\ pad = 0
    /\ RecordOffsets(file) # {}
    /\ ~can
    /\ error = ""

(***************************************************************************)
(* C18: parse on a file that cannot be read                                *)
(***************************************************************************)
\* C18: when opening or reading the file fails, parse raises ParseError,
\* which is not UnsupportedFormatError; it returns no track, scans nothing,
\* and takes no further step: the read is not tried again.
C18_ReadFailureIsParseError ==
    /\ [](io # "" =>
            /\ pc \in {"start", "failed"}
            /\ content = << >> /\ calls = << >> /\ points = << >>
            /\ track = << >>)
    /\ [](pc = "failed" =>
            /\ io # ""
            /\ error = "ParseError"
            /\ error # "UnsupportedFormatError")
    /\ [][/\ (pc = "start" /\ io # "") => pc' = "failed"
          /\ pc # "failed"
         ]_vars

\* parse failed on a file holding a record that may not be read
C18_Witness ==
    /\ pc = "failed"
    /\ io = "PermissionError"
    /\ RecordOffsets(file) # {}
    /\ error = "ParseError"
    /\ track = << >>

(***************************************************************************)
(* C19: extract_telemetry                                                  *)
(***************************************************************************)
\* C19: extract_telemetry asks the parsers in registry order and calls
\* parse only on the first whose can_parse returned true; when none did it
\* raises UnsupportedFormatError and calls no parse.
C19_ParseOnlyAfterDetection ==
    /\ \A j \in 1..Len(asked) :
         /\ j <= Len(PARSERS)
         /\ asked[j].parser = PARSERS[j]
         /\ j < Len(asked) => ~asked[j].answer
    /\ pc # "idle" =>
        /\ epc \in {"parse", "returned", "raised"}
        /\ asked # << >>
        /\ asked[Len(asked)].answer
        /\ parser = <<asked[Len(asked)].parser>>
    /\ parser # << >> => (asked # << >> /\ asked[Len(asked)].answer)
    /\ (epc # "get_parser" /\ \A j \in 1..Len(asked) : ~asked[j].answer) =>
        /\ epc = "raised"
        /\ error = "UnsupportedFormatError"
        /\ Len(asked) = Len(PARSERS)
        /\ parser = << >>
        /\ pc = "idle" /\ track = << >> /\ content = << >>
    /\ (epc = "raised" /\ error = "UnsupportedFormatError") =>
        (pc = "idle" /\ \A j \in 1..Len(asked) : ~asked[j].answer)

\* extract_telemetry returned a track with a sample, parsed by the parser
\* whose can_parse returned true
C19_Witness ==
    /\ epc = "returned"
    /\ asked # << >>
    /\ asked[Len(asked)].answer
    /\ parser = <<"YouqingParser">>
    /\ Len(track) = 1
    /\ Len(track[1].points) >= 1

(***************************************************************************)
(* C20: a file that holds the marker nowhere                               *)
(***************************************************************************)
\* C20: for a readable file that holds the marker nowhere, can_parse
\* returns false, and parse called on it all the same finds no match,
\* raises nothing and returns a track of length 0.
C20_NoMarkerNoSamples ==
    (io = "" /\ MarkerOffsets(file) = {}) =>
        /\ cpc # "call" => (cpc = "returned" /\ can = FALSE)
        /\ pc \notin {"failed", "raised"}
        /\ error = ""
        /\ pc = "match" => pos < 0
        /\ calls = << >> /\ points = << >>
        /\ pc = "done" =>
            /\ Len(track) = 1
            /\ Len(track[1].points) = 0

\* can_parse returned false and parse an empty track for a file that holds
\* the brand identifier of a record but not its marker
C20_Witness ==
    /\ cpc = "returned"
    /\ can = FALSE
    /\ pc = "done"
    /\ io = ""
    /\ BrandAt(file, 0)
    /\ MarkerOffsets(file) = {}
    /\ track[1].points = << >>

(***************************************************************************)
(* C21: the NMEA codec                                                     *)
(***************************************************************************)
\* C21: for every decimal degree d with |d| < 180, negative values
\* included, nmea_to_decimal(decimal_to_nmea(d)) is d.
C21_CodecRoundTrip ==
    dec # << >> => (dec[1].exc = "" /\ dec[1].val = deg)

(***************************************************************************)
(* C22..C24: the methods of GPSPoint and GPSTrack                          *)
(***************************************************************************)
\* the result of the method op, when that is the method that was called
Returned(op) == res # << >> /\ res[1].op = op

\* whether a point is within the documented ranges and has a fix
InRangeWithFix(p) ==
    /\ p.latitude \in (-(5400 * 2^FracBits))..(5400 * 2^FracBits)
    /\ p.longitude \in (-(10800 * 2^FracBits))..(10800 * 2^FracBits)
    /\ p.fix_quality >= 1

\* C22: is_valid returns true if and only if the latitude is in [-90, 90],
\* the longitude in [-180, 180], bounds included, and fix_quality > 0.
C22_IsValidIffInRange ==
    Returned("is_valid") =>
        /\ res[1].val = InRangeWithFix(pt[1])
        /\ pt[1].latitude > 5400 * 2^FracBits => ~res[1].val
        /\ pt[1].latitude < -(5400 * 2^FracBits) => ~res[1].val
        /\ pt[1].longitude > 10800 * 2^FracBits => ~res[1].val
        /\ pt[1].longitude < -(10800 * 2^FracBits) => ~res[1].val
        /\ pt[1].fix_quality <= 0 => ~res[1].val

\* is_valid returned true for the point at latitude 90, longitude -180
C22_Witness ==
    /\ Returned("is_valid")
    /\ pt[1].latitude = 5400 * 2^FracBits
    /\ pt[1].longitude = -(10800 * 2^FracBits)
    /\ pt[1].fix_quality = 1
    /\ res[1].val = TRUE

\* C23: filter_valid returns a track of exactly the valid points of the
\* original, in their order, with its source_file and device_info, and the
\* original track is after the call what it was before.
C23_FilterValidIsPure ==
    [][(res = << >> /\ res' # << >> /\ res'[1].op = "filter_valid") =>
            /\ trk' = trk
            /\ res'[1].val.points = SelectSeq(trk[1].points, InRangeWithFix)
            /\ res'[1].val.source_file = trk[1].source_file
            /\ res'[1].val.device_info = trk[1].device_info
      ]_vars

\* filter_valid returned two of the three points of a track, which still
\* has its three points
C23_Witness ==
    /\ Returned("filter_valid")
    /\ Len(trk[1].points) = 3
    /\ ~InRangeWithFix(trk[1].points[2])
    /\ res[1].val.points = <<trk[1].points[1], trk[1].points[3]>>

\* the seconds from 2024-02-28 23:59:59 to each timestamp of TrackPoints,
\* as datetime subtraction gives them
SecondsSinceLeapEve(t) ==
    IF t = Stamp(2024, 2, 28, 23, 59, 59) THEN 0
    ELSE IF t = Stamp(2024, 4, 20, 14, 24, 12) THEN 4458253
    ELSE IF t = Stamp(2024, 4, 20, 14, 24, 13) THEN 4458254
    ELSE IF t = Stamp(2024, 4, 21, 0, 0, 0) THEN 4492801
    ELSE 26524801

\* C24: duration is None when the track has fewer than 2 points or its
\* first or last point has no timestamp; otherwise it is the seconds from
\* the first point's timestamp to the last point's, whatever the points in
\* between hold.
C24_DurationFirstToLast ==
    Returned("duration") =>
        LET ps == trk[1].points
            n  == Len(ps)
        IN  IF n < 2 THEN res[1].val = << >>
            ELSE IF ps[1].timestamp = << >> \/ ps[n].timestamp = << >>
            THEN res[1].val = << >>
            ELSE res[1].val = <<SecondsSinceLeapEve(ps[n].timestamp[1])
                                - SecondsSinceLeapEve(ps[1].timestamp[1])>>

\* a duration of one second for a track of three points whose middle
\* point has no timestamp
C24_Witness ==
    /\ Returned("duration")
    /\ Len(trk[1].points) = 3
    /\ trk[1].points[2].timestamp = << >>
    /\ res[1].val = <<1>>


\* the outcome cmd_extract reports for one input depends on that input alone
OutcomeOf(i) ==
    LET f == inputs[i]
        e == log[i]
        whole == SamplesAt(impl, f.bytes, Ascending(RecordOffsets(f.bytes)))
    IN /\ e.input = i
       /\ ~f.exists => e.outcome = "not_found"
       /\ (f.exists /\ (f.io # "" \/ ~FirstMarkerHasBrand(0, f.bytes))) =>
              (e.outcome = "error" /\ e.error = "UnsupportedFormatError")
       /\ (f.exists /\ f.io = "" /\ FirstMarkerHasBrand(0, f.bytes)) =>
              \/ e.outcome = "export_failed"
              \/ e.outcome = "error" /\ e.error = "ParseError"
              \/ /\ e.outcome = "exported"
                 /\ e.track[1].points =
                       IF opts[1].skip_invalid THEN ValidPoints(whole)
                       ELSE whole

\* C25: in a run of cmd_extract over several inputs, a missing file, an
\* UnsupportedFormatError or a ParseError for one input is reported and the
\* loop goes on: the command ends early only when an export fails, every
\* input reached has the outcome its own content gives it whatever happened
\* to the inputs before it, and at return every input has been handled.
C25_BatchContinues ==
    /\ Len(inputs) > 0 =>
          /\ Len(log) \in {idx, idx - 1}
          /\ \A i \in 1..Len(log) : OutcomeOf(i)
          /\ \A i \in 1..Len(log) :
                (log[i].outcome = "export_failed") =
                    (bpc = "crashed" /\ i = Len(log))
          /\ bpc = "crashed" => (Len(log) > 0 /\
                                  log[Len(log)].outcome = "export_failed")
          /\ bpc = "done" => Len(log) = Len(inputs)

C25_Witness ==
    /\ bpc = "done"
    /\ Len(inputs) = 2
    /\ log[1].outcome = "error" /\ log[1].error = "ParseError"
    /\ log[2].outcome = "exported"
    /\ Len(log[2].track[1].points) > 0


\* what parse gives for the call's file when it runs alone: the failure of
\* C18, or the track of C6
Alone(fr) ==
    IF fr.io # ""
    THEN fr.pc = "failed" /\ fr.error = "ParseError" /\ fr.track = None
    ELSE /\ fr.pc = "done"
         /\ fr.track =
              Some(GPSTrack(SamplesAt(impl, fr.file,
                                      Ascending(RecordOffsets(fr.file))),
                            fr.filepath, DeviceInfo))

\* C26: of two calls of parse interleaved on the one parser instance, each
\* ends with what its own bytes and path give when it runs alone, and two
\* calls on the same bytes and path end with equal tracks.
C26_ParseIsReentrant ==
    saved # None =>
        /\ Finished(Running) => Alone(Running)
        /\ Finished(saved[1]) => Alone(saved[1])
        /\ ( /\ Finished(Running) /\ Finished(saved[1])
             /\ file = saved[1].file /\ filepath = saved[1].filepath
             /\ io = saved[1].io ) => track = saved[1].track

\* both calls were suspended before they ended, and ended with samples,
\* of different files
C26_Witness ==
    /\ saved # None
    /\ turn >= 3
    /\ pc = "done" /\ saved[1].pc = "done"
    /\ Len(track[1].points) > 0
    /\ Len(saved[1].track[1].points) > 0
    /\ file # saved[1].file
    /\ Len(calls) > 1 /\ Len(saved[1].calls) > 0


(***************************************************************************)
(* C27..C30                                                                *)
(***************************************************************************)
\* C27: a candidate of exactly 71 bytes, which holds every field up to and
\* including the three status bytes [68:71), with raw latitude and
\* longitude nonzero numbers, is decoded into a sample with speed 0.
C27_SeventyOneBytesDecoded ==
    (/\ dpc = "returned"
     /\ Len(chunk) = 71
     /\ NumberField(chunk, 36) /\ NumberField(chunk, 40)) =>
        (ret.kind = "point" /\ ret.point[1].speed = 0)

\* C28: when extract_telemetry raises for a file that cannot be opened or
\* read, the error is ParseError, not UnsupportedFormatError.
C28_UnreadableIsParseError ==
    (epc = "raised" /\ io # "") => error = "ParseError"

\* C29: extract_telemetry raises UnsupportedFormatError for no readable file
\* of at most ReadLimit bytes in which the scanner finds a candidate.
C29_DetectorAgreesWithScanner ==
    (/\ epc = "raised"
     /\ error = "UnsupportedFormatError"
     /\ io = ""
     /\ pad + Len(file) <= ReadLimit) => RecordOffsets(file) = {}

\* C30: every decoded sample has latitude in [-90, 90] and longitude in
\* [-180, 180], and is valid when status byte 0 is 'A'.
C30_CoordinatesInRange ==
    (dpc = "returned" /\ ret.kind = "point") =>
        LET p == ret.point[1]
        IN  /\ -Degrees(90) <= p.latitude /\ p.latitude <= Degrees(90)
            /\ -Degrees(180) <= p.longitude /\ p.longitude <= Degrees(180)
            /\ chunk[69] = 65 => is_valid(p)

====
